---- MODULE Spec2Model ----
(***************************************************************************)
(* pdf-burger: the collection-and-merge pipeline.                          *)
(*                                                                         *)
(*   collector.py  natural_sort_key, validate_pdf, _resolve_file,          *)
(*                 _resolve_dir, _resolve_input, collect_pdfs              *)
(*   merger.py     merge_pdfs (the lazy IO action and its effect)          *)
(*   cli.py        resolve_output, _unique_path, check_overwrite,          *)
(*                 _run_pipeline                                           *)
(*   monads.py     Ok / Err (map, bind, map_err), safe, partition_results  *)
(*                                                                         *)
(* A file name is a sequence of one-character strings.  The token "SUP2"   *)
(* stands for the single character U+00B2 (superscript two): str.isdigit() *)
(* is True for it, the regular expression \d does not match it, and int()  *)
(* rejects it.                                                             *)
(***************************************************************************)
EXTENDS Integers, Sequences, FiniteSets, TLC

\* ------------------------------------------------------------------------
\* Bounds of the model
\* ------------------------------------------------------------------------

\* longest list of raw inputs given to one run
MaxInputs == 2

\* ------------------------------------------------------------------------
\* Characters (Python str semantics)
\* ------------------------------------------------------------------------

Decimals ==
    <<"0", "1", "2", "3", "4", "5", "6", "7", "8", "9">>

Uppers ==
    <<"A", "B", "C", "D", "E", "F", "G", "H", "I", "J", "K", "L", "M",
      "N", "O", "P", "Q", "R", "S", "T", "U", "V", "W", "X", "Y", "Z">>

Lowers ==
    <<"a", "b", "c", "d", "e", "f", "g", "h", "i", "j", "k", "l", "m",
      "n", "o", "p", "q", "r", "s", "t", "u", "v", "w", "x", "y", "z">>

\* position of c in the sequence t, 0 when it is not there
IndexIn(t, c) ==
    IF \E i \in 1..Len(t) : t[i] = c
    THEN CHOOSE i \in 1..Len(t) : t[i] = c
    ELSE 0

\* re: \d  (Unicode category Nd)
IsDecimal(c) ==
    IndexIn(Decimals, c) > 0

\* str.isdigit() of one character: the decimals and also the superscripts
IsDigitChar(c) ==
    IsDecimal(c) \/ c = "SUP2"

\* int() of one decimal character
DigitVal(c) ==
    IndexIn(Decimals, c) - 1

\* str.lower() of one character
LowerChar(c) ==
    IF IndexIn(Uppers, c) > 0 THEN Lowers[IndexIn(Uppers, c)] ELSE c

\* ord(): the code point, which orders str
CodePoint(c) ==
    CASE c = "." -> 46
      [] IsDecimal(c) -> 48 + DigitVal(c)
      [] IndexIn(Uppers, c) > 0 -> 64 + IndexIn(Uppers, c)
      [] c = "_" -> 95
      [] IndexIn(Lowers, c) > 0 -> 96 + IndexIn(Lowers, c)
      [] c = "SUP2" -> 178

\* str.lower()
Lower(s) ==
    [i \in 1..Len(s) |-> LowerChar(s[i])]

\* str.isdigit(): non-empty and every character a digit character
IsDigitStr(s) ==
    Len(s) > 0 /\ \A i \in 1..Len(s) : IsDigitChar(s[i])

\* whether int(s) succeeds: only decimal characters are accepted
IntParses(s) ==
    Len(s) > 0 /\ \A i \in 1..Len(s) : IsDecimal(s[i])

RECURSIVE IntOf(_)
\* int(s) for a string of decimals
IntOf(s) ==
    IF Len(s) = 0 THEN 0
    ELSE 10 * IntOf(SubSeq(s, 1, Len(s) - 1)) + DigitVal(s[Len(s)])

RECURSIVE StrLess(_, _)
\* str < str: lexicographic by code point, a proper prefix first
StrLess(s, t) ==
    IF Len(t) = 0 THEN FALSE
    ELSE IF Len(s) = 0 THEN TRUE
    ELSE IF s[1] = t[1] THEN StrLess(Tail(s), Tail(t))
    ELSE CodePoint(s[1]) < CodePoint(t[1])

\* ------------------------------------------------------------------------
\* natural_sort_key
\* ------------------------------------------------------------------------

RECURSIVE RunLen(_, _)
\* length of the longest prefix of s whose characters are all decimals
\* (digits = TRUE) or all non-decimals (digits = FALSE)
RunLen(s, digits) ==
    IF Len(s) = 0 \/ IsDecimal(s[1]) # digits THEN 0
    ELSE 1 + RunLen(Tail(s), digits)

RECURSIVE ReSplit(_, _)
RECURSIVE SplitAt(_, _, _)
\* the run of the first n characters of s, then the runs of the rest; a
\* decimal run is never empty
SplitAt(s, digits, n) ==
    IF digits /\ n = 0 THEN <<>>
    ELSE <<SubSeq(s, 1, n)>> \o ReSplit(SubSeq(s, n + 1, Len(s)), ~digits)

\* re.split(r"(\d+)", s): the runs of s, alternately non-decimal (possibly
\* empty) and decimal, first and last a non-decimal run
ReSplit(s, digits) ==
    SplitAt(s, digits, RunLen(s, digits))

\* (mutant) every part kept as text
KeyPart_as_text(p) ==
    [t |-> "str", n |-> 0, s |-> Lower(p)]

\* one element of the key: int(p) if p.isdigit() else p.lower(); int() raises
\* ValueError when p holds a digit character that is not a decimal
KeyPart(p) ==
    IF IsDigitStr(p)
    THEN IF IntParses(p) THEN [t |-> "int", n |-> IntOf(p), s |-> <<>>]
         ELSE [t |-> "ValueError", n |-> 0, s |-> p]
    ELSE [t |-> "str", n |-> 0, s |-> Lower(p)]

\* natural_sort_key(path) on path.name: the list of key parts
KeyOfParts(parts) ==
    [i \in 1..Len(parts) |-> KeyPart(parts[i])]

natural_sort_key(name) ==
    KeyOfParts(ReSplit(name, FALSE))

\* whether a key holds a part on which int() raised
HasValueError(k) ==
    \E i \in 1..Len(k) : k[i].t = "ValueError"

\* one key element < another (int with int, str with str)
PartLess(a, b) ==
    IF a.t = "int" /\ b.t = "int" THEN a.n < b.n
    ELSE StrLess(a.s, b.s)

RECURSIVE KeyLess(_, _)
\* list < list: the first differing pair decides, a proper prefix first
KeyLess(k1, k2) ==
    IF Len(k2) = 0 THEN FALSE
    ELSE IF Len(k1) = 0 THEN TRUE
    ELSE IF k1[1] = k2[1] THEN KeyLess(Tail(k1), Tail(k2))
    ELSE PartLess(k1[1], k2[1])

\* ------------------------------------------------------------------------
\* monads.py: Result
\* ------------------------------------------------------------------------

Ok(v) ==
    [tag |-> "Ok", value |-> v]

Err(e) ==
    [tag |-> "Err", error |-> e]

\* an exception leaving a function that has no handler for it
Raise(e) ==
    [tag |-> "Raise", error |-> e]

\* Ok.map / Err.map; f_value is f(r.value), used only when r is Ok
Map(r, f_value) ==
    IF r.tag = "Ok" THEN Ok(f_value) ELSE r

\* Ok.bind / Err.bind; f_value is f(r.value), used only when r is Ok
Bind(r, f_value) ==
    IF r.tag = "Ok" THEN f_value ELSE r

\* Ok.map_err / Err.map_err; f_error is f(r.error), used only when r is Err
MapErr(r, f_error) ==
    IF r.tag = "Err" THEN Err(f_error) ELSE r

\* partition_results: (successes, failures), each in the order of results
RECURSIVE PartitionOks(_)
PartitionOks(results) ==
    IF Len(results) = 0 THEN <<>>
    ELSE (IF Head(results).tag = "Ok" THEN <<Head(results).value>> ELSE <<>>)
         \o PartitionOks(Tail(results))

RECURSIVE PartitionErrs(_)
PartitionErrs(results) ==
    IF Len(results) = 0 THEN <<>>
    ELSE (IF Head(results).tag = "Err" THEN <<Head(results).error>> ELSE <<>>)
         \o PartitionErrs(Tail(results))

\* ------------------------------------------------------------------------
\* The filesystem the runs start from
\* ------------------------------------------------------------------------

\* every named path, in the order a directory listing yields them
Listing ==
    << "docs/10.PDF", "docs/sub/1.pdf", "docs/2.pdf", "docs/x.pdf",
       "docs/1.pdf", "docs/01.pdf", "docs/sub/0.pdf", "docs/sub", "empty/note.txt",
       "odd/1SUP22.pdf", "junk/B.pdf", "junk/a.pdf", "junk/a.pdf1.pdf", "A.PDF",
       "note.txt",
       "missing.pdf", "fifo", "docs", "empty", "odd", "junk", "new",
       "new/out.pdf" >>

Paths ==
    {Listing[i] : i \in 1..Len(Listing)}

\* Path.parent ("" is the working directory)
Parent(p) ==
    CASE p \in {"docs/10.PDF", "docs/2.pdf", "docs/x.pdf", "docs/1.pdf",
                "docs/01.pdf", "docs/sub"} -> "docs"
      [] p \in {"docs/sub/1.pdf", "docs/sub/0.pdf"} -> "docs/sub"
      [] p = "empty/note.txt" -> "empty"
      [] p = "odd/1SUP22.pdf" -> "odd"
      [] p \in {"junk/B.pdf", "junk/a.pdf", "junk/a.pdf1.pdf"} -> "junk"
      [] p = "new/out.pdf" -> "new"
      [] OTHER -> ""

\* Path.name, character by character
Name(p) ==
    CASE p = "docs/10.PDF" -> <<"1", "0", ".", "P", "D", "F">>
      [] p = "docs/2.pdf" -> <<"2", ".", "p", "d", "f">>
      [] p = "docs/1.pdf" -> <<"1", ".", "p", "d", "f">>
      [] p = "docs/sub/1.pdf" -> <<"1", ".", "p", "d", "f">>
      [] p = "docs/01.pdf" -> <<"0", "1", ".", "p", "d", "f">>
      [] p = "docs/sub/0.pdf" -> <<"0", ".", "p", "d", "f">>
      [] p = "docs/x.pdf" -> <<"x", ".", "p", "d", "f">>
      [] p = "odd/1SUP22.pdf" -> <<"1", "SUP2", "2", ".", "p", "d", "f">>
      [] p = "junk/B.pdf" -> <<"B", ".", "p", "d", "f">>
      [] p = "junk/a.pdf" -> <<"a", ".", "p", "d", "f">>
      [] p = "junk/a.pdf1.pdf" -> <<"a", ".", "p", "d", "f", "1", ".", "p", "d", "f">>
      [] p = "junk" -> <<"j", "u", "n", "k">>
      [] p = "A.PDF" -> <<"A", ".", "P", "D", "F">>
      [] p = "missing.pdf"
            -> <<"m", "i", "s", "s", "i", "n", "g", ".", "p", "d", "f">>
      [] p = "new/out.pdf" -> <<"o", "u", "t", ".", "p", "d", "f">>
      [] p \in {"note.txt", "empty/note.txt"}
            -> <<"n", "o", "t", "e", ".", "t", "x", "t">>
      [] p = "docs/sub" -> <<"s", "u", "b">>
      [] p = "docs" -> <<"d", "o", "c", "s">>
      [] p = "empty" -> <<"e", "m", "p", "t", "y">>
      [] p = "odd" -> <<"o", "d", "d">>
      [] p = "fifo" -> <<"f", "i", "f", "o">>
      [] p = "new" -> <<"n", "e", "w">>

\* page k of the document first stored at path p
Page(p, k) ==
    [src |-> p, no |-> k]

Absent ==
    [kind |-> "absent", readable |-> FALSE, pages |-> <<>>]

Dir ==
    [kind |-> "dir", readable |-> FALSE, pages |-> <<>>]

\* a regular file holding a readable PDF of n pages
PdfFile(p, n) ==
    [kind |-> "file", readable |-> TRUE, pages |-> [k \in 1..n |-> Page(p, k)]]

\* a regular file that is no parseable PDF
BadFile ==
    [kind |-> "file", readable |-> FALSE, pages |-> <<>>]

Fs0 ==
    [p \in Paths |->
        CASE p \in {"docs", "docs/sub", "docs/x.pdf", "empty", "odd", "junk"} -> Dir
          [] p \in {"A.PDF", "docs/1.pdf", "docs/01.pdf", "docs/sub/1.pdf"}
                -> PdfFile(p, 1)
          [] p = "docs/10.PDF" -> PdfFile(p, 2)
          [] p \in {"docs/sub/0.pdf", "junk/a.pdf"} -> PdfFile(p, 0)
          [] p \in {"docs/2.pdf", "junk/B.pdf", "junk/a.pdf1.pdf", "note.txt", "empty/note.txt",
                     "odd/1SUP22.pdf"} -> BadFile
          [] p = "fifo" -> [kind |-> "other", readable |-> FALSE, pages |-> <<>>]
          [] OTHER -> Absent]

\* the raw inputs a command line may name
RawInputs ==
    {"A.PDF", "note.txt", "missing.pdf", "fifo", "docs", "empty", "odd",
     "junk", "docs/2.pdf", "docs/sub/0.pdf"}

\* Path.suffix: the name from its last dot on ("" when it has none)
Suffix(name) ==
    LET dots == {i \in 2..Len(name) : name[i] = "."}
    IN  IF dots = {} THEN <<>>
        ELSE SubSeq(name, CHOOSE i \in dots : \A j \in dots : j <= i, Len(name))

DotPdf ==
    <<".", "p", "d", "f">>

\* fnmatch of a name against "*.[pP][dD][fF]"
GlobMatches(name) ==
    /\ Len(name) >= 4
    /\ Lower(SubSeq(name, Len(name) - 3, Len(name))) = DotPdf

\* the named paths whose name the pattern matches
NameMatches ==
    [p \in Paths |-> GlobMatches(Name(p))] @@ <<>>

\* (mutant) only the children of d
IsUnder_children_only(p, d) ==
    Parent(p) = d

RECURSIVE IsUnder(_, _)
\* p lies in the subtree of directory d
IsUnder(p, d) ==
    /\ Parent(p) # ""
    /\ (Parent(p) = d \/ IsUnder(Parent(p), d))

\* SelectSeq with the order kept or reversed
Reverse(s) ==
    [i \in 1..Len(s) |-> s[Len(s) + 1 - i]]

\* the entry p exists, its name matches the pattern, and it is a child of
\* path (glob) or lies anywhere below it (rglob)
InScope(disk, path, recursive, p) ==
    /\ disk[p].kind # "absent"
    /\ NameMatches[p]
    /\ IF recursive THEN IsUnder(p, path) ELSE Parent(p) = path

\* Path.glob / Path.rglob of "*.[pP][dD][fF]": the existing entries below
\* path whose name matches, in directory order (rev: the other order an
\* operating system may yield them in)
Glob(disk, path, recursive, rev) ==
    IF rev
    THEN Reverse(SelectSeq(Listing, LAMBDA p : InScope(disk, path, recursive, p)))
    ELSE SelectSeq(Listing, LAMBDA p : InScope(disk, path, recursive, p))

\* ------------------------------------------------------------------------
\* collector.py
\* ------------------------------------------------------------------------

\* one access to the outside world, as the run performs it
Ev(op, path) ==
    [op |-> op, path |-> path]

\* CollectResult(files, warnings)
CollectResult(files, warnings) ==
    [files |-> files, warnings |-> warnings]

\* str(e) of an exception: its message
Str(e) ==
    e.msg

\* _read_pdf under @safe: PdfReader(path) raises on a file that does not
\* parse, a document of zero pages raises ValueError, both caught into Err
_read_pdf(disk, path) ==
    IF ~disk[path].readable
    THEN Err([exc |-> "PdfReadError", msg |-> <<"EOF marker not found">>])
    ELSE IF Len(disk[path].pages) = 0
    THEN Err([exc |-> "ValueError", msg |-> <<"PDF has no pages: ", path>>])
    ELSE Ok(path)

\* _read_pdf(path).map_err(lambda e: str(e))
validate_pdf(disk, path) ==
    MapErr(_read_pdf(disk, path), Str(_read_pdf(disk, path).error))

\* v.map(lambda p: CollectResult(files=(p,), warnings=()))
\*  .map_err(lambda e: f"cannot read PDF: {raw} ({e})")
FileResult(raw, v) ==
    MapErr(Map(v, CollectResult(<<v.value>>, <<>>)),
           <<"cannot read PDF: ", raw, " (">> \o v.error \o <<")">>)

\* _resolve_file: the result, and the accesses made to reach it
_resolve_file(disk, raw, path) ==
    IF Lower(Suffix(Name(path))) # DotPdf
    THEN [res |-> Err(<<"not a PDF file: ", raw>>), log |-> <<>>]
    ELSE [res |-> FileResult(raw, validate_pdf(disk, path)),
          log |-> <<Ev("open", path)>>]

\* the sort key of every named path (sorted() computes each key once), as a
\* table
SortKey ==
    [p \in Paths |-> natural_sort_key(Name(p))] @@ <<>>

RECURSIVE InsertByKey(_, _)
\* x put into the sorted sequence s behind every element whose key is not
\* greater than its own
InsertByKey(s, x) ==
    IF Len(s) = 0 THEN <<x>>
    ELSE IF KeyLess(SortKey[x], SortKey[Head(s)])
    THEN <<x>> \o s
    ELSE <<Head(s)>> \o InsertByKey(Tail(s), x)

RECURSIVE SortedByKey(_)
\* sorted(s, key=natural_sort_key): stable
SortedByKey(s) ==
    IF Len(s) = 0 THEN <<>>
    ELSE InsertByKey(SortedByKey(SubSeq(s, 1, Len(s) - 1)), s[Len(s)])

\* the generator of _resolve_dir: the glob hits that are regular files
Candidates(disk, path, recursive, rev) ==
    SelectSeq(Glob(disk, path, recursive, rev), LAMBDA p : disk[p].kind = "file")

\* the end of _resolve_dir, from the sorted candidates and their validation
DirResult(raw, path, pdfs, validated) ==
    IF Len(pdfs) = 0
    THEN [res |-> Ok(CollectResult(
                    <<>>, << <<"no PDFs found in directory: ", raw>> >>)),
          log |-> <<Ev("scan", path)>>]
    ELSE [res |-> Ok(CollectResult(PartitionOks(validated),
                                   PartitionErrs(validated))),
          log |-> <<Ev("scan", path)>>
                  \o [i \in 1..Len(pdfs) |-> Ev("open", pdfs[i])]]

\* list(map(validate_pdf, pdfs))
Validated(disk, pdfs) ==
    [i \in 1..Len(pdfs) |-> validate_pdf(disk, pdfs[i])]

\* sorted(candidates, key=natural_sort_key) and what follows it; the sort
\* computes every key first, and raises when one of them does
SortAndValidate(disk, raw, path, cands) ==
    IF \E i \in 1..Len(cands) : HasValueError(SortKey[cands[i]])
    THEN [res |-> Raise("ValueError"), log |-> <<Ev("scan", path)>>]
    ELSE DirResult(raw, path, SortedByKey(cands), Validated(disk, SortedByKey(cands)))

\* _resolve_dir: the result (Raise when a sort key raises), and the accesses
_resolve_dir(disk, raw, path, recursive, rev) ==
    SortAndValidate(disk, raw, path, Candidates(disk, path, recursive, rev))

\* a result with the accesses made before it
After(stat, r) ==
    [res |-> r.res, log |-> stat \o r.log]

\* (mutant) an entry that is neither file nor directory contributes nothing
_resolve_input_skipping_others(disk, recursive, raw, rev) ==
    IF disk[raw].kind = "absent"
    THEN [res |-> Err(<<"path not found: ", raw>>), log |-> <<Ev("stat", raw)>>]
    ELSE IF disk[raw].kind = "file"
    THEN After(<<Ev("stat", raw)>>, _resolve_file(disk, raw, raw))
    ELSE IF disk[raw].kind = "dir"
    THEN After(<<Ev("stat", raw)>>, _resolve_dir(disk, raw, raw, recursive, rev))
    ELSE [res |-> Ok(CollectResult(<<>>, <<>>)), log |-> <<Ev("stat", raw)>>]

\* _resolve_input: Path(raw).resolve() is the named path itself
_resolve_input(disk, recursive, raw, rev) ==
    IF disk[raw].kind = "absent"
    THEN [res |-> Err(<<"path not found: ", raw>>), log |-> <<Ev("stat", raw)>>]
    ELSE IF disk[raw].kind = "file"
    THEN After(<<Ev("stat", raw)>>, _resolve_file(disk, raw, raw))
    ELSE IF disk[raw].kind = "dir"
    THEN After(<<Ev("stat", raw)>>, _resolve_dir(disk, raw, raw, recursive, rev))
    ELSE [res |-> Err(<<"unsupported path type: ", raw>>),
          log |-> <<Ev("stat", raw)>>]

\* (mutant) the new files put in front of the accumulated ones
_merge_collect_results_prepend(a, b) ==
    CollectResult(b.files \o a.files, a.warnings \o b.warnings)

_merge_collect_results(a, b) ==
    CollectResult(a.files \o b.files, a.warnings \o b.warnings)

EMPTY ==
    CollectResult(<<>>, <<>>)

\* acc.bind(lambda prev: r.map(lambda curr: _merge_collect_results(prev, curr)))
\* for the resolution r of the next input
BindMerge(acc, raw, r) ==
    [res |-> Bind(acc.res,
                  Map(r.res, _merge_collect_results(acc.res.value, r.res.value))),
     log |-> acc.log \o r.log,
     steps |-> acc.steps \o <<[raw |-> raw, res |-> r.res, log |-> r.log]>>]

\* accumulate: resolve(raw) is called only inside the bind of an Ok
\* accumulator; an exception it raised is passed on as it is
accumulate(disk, recursive, rev, acc, raw) ==
    IF acc.res.tag = "Ok"
    THEN BindMerge(acc, raw, _resolve_input(disk, recursive, raw, rev))
    ELSE acc

RECURSIVE Reduce(_, _, _, _, _)
\* reduce(accumulate, inputs, acc)
Reduce(disk, recursive, rev, acc, inputs) ==
    IF Len(inputs) = 0 THEN acc
    ELSE Reduce(disk, recursive, rev,
                accumulate(disk, recursive, rev, acc, Head(inputs)), Tail(inputs))

\* .bind(lambda cr: Err("no PDF files to merge") if not cr.files else Ok(cr))
NonEmpty(folded) ==
    [res |-> Bind(folded.res,
                  IF Len(folded.res.value.files) = 0
                  THEN Err(<<"no PDF files to merge">>)
                  ELSE Ok(folded.res.value)),
     log |-> folded.log,
     steps |-> folded.steps]

\* collect_pdfs: the result, the accesses made to reach it, and what each
\* call of resolve returned
collect_pdfs(disk, inputs, recursive, rev) ==
    NonEmpty(Reduce(disk, recursive, rev,
                    [res |-> Ok(EMPTY), log |-> <<>>, steps |-> <<>>], inputs))

\* ------------------------------------------------------------------------
\* Output paths
\* ------------------------------------------------------------------------

\* Path(output_arg): the named path itself
ArgPath(arg) ==
    [base |-> arg, auto |-> FALSE, idx |-> 0]

\* cwd / "{stem}.pdf" (idx = 0) and cwd / "{stem}_{idx:03d}.pdf" (idx > 0);
\* `taken` is the set of idx whose file exists
AutoPath(stem, idx) ==
    [base |-> stem, auto |-> TRUE, idx |-> idx]

NoPath ==
    [base |-> "", auto |-> FALSE, idx |-> 0]

\* Path.exists()
Exists(disk, taken, path) ==
    IF path.auto THEN path.idx \in taken ELSE disk[path.base].kind # "absent"

\* output.parent.exists(): the working directory always does
ParentExists(disk, path) ==
    path.auto \/ Parent(path.base) = "" \/ disk[Parent(path.base)].kind # "absent"

\* ------------------------------------------------------------------------
\* merger.py
\* ------------------------------------------------------------------------

PROGRESS_THRESHOLD == 5

MergeResult(output, file_count, page_count) ==
    [output |-> output, file_count |-> file_count, page_count |-> page_count]

\* the state of the try block of effect(): the filesystem, the set of taken
\* automatic names, the writer's pages, what was written, the accesses made,
\* and the exception raised so far ("" for none)
Running(disk, taken) ==
    [fs |-> disk, taken |-> taken, writer |-> <<>>, written |-> <<>>,
     log |-> <<>>, exc |-> ""]

\* the codec and the operating system, as one run over n files meets them:
\* whether mkdir succeeds (it is called only when the parent is missing), the
\* index of the append the codec fails (0: none), and how write ends ("ok",
\* "fail": nothing written, "partial": an incomplete file is left)
CodecBehaviours(n, parent_exists) ==
    [mkdir_ok : IF parent_exists THEN {TRUE} ELSE BOOLEAN,
     fail_at : 0..n,
     write : {"ok", "fail", "partial"}]

\* (mutant) a callback that raises is ignored
on_verbose_harmless(st, raises) ==
    st

\* on_verbose(msg): a callback that raises ends the try block
on_verbose(st, raises) ==
    IF st.exc = "" /\ raises THEN [st EXCEPT !.exc = "callback raised"] ELSE st

\* output.parent.mkdir(parents=True, exist_ok=True)
mkdir(st, path, ok) ==
    IF st.exc # "" THEN st
    ELSE IF ~ok THEN [st EXCEPT !.exc = "PermissionError"]
    ELSE [st EXCEPT !.fs[Parent(path.base)] = Dir,
                    !.log = st.log \o <<Ev("mkdir", Parent(path.base))>>]

\* (mutant) the pages taken from the reader the validation opened, the file
\* not opened again
_append_pdf_reusing_reader(st, path, ok) ==
    IF st.exc # "" THEN st
    ELSE IF ~ok \/ st.fs[path].kind # "file" \/ ~st.fs[path].readable
    THEN [st EXCEPT !.exc = "append failed"]
    ELSE [st EXCEPT !.writer = st.writer \o st.fs[path].pages]

\* (mutant) only the first page of the document is added
_append_pdf_first_page(st, path, ok) ==
    IF st.exc # "" THEN st
    ELSE IF ~ok \/ st.fs[path].kind # "file" \/ ~st.fs[path].readable
    THEN [st EXCEPT !.exc = "append failed",
                    !.log = st.log \o <<Ev("append", path)>>]
    ELSE [st EXCEPT !.writer = st.writer \o
                        [i \in 1..(IF st.fs[path].pages = <<>> THEN 0 ELSE 1) |->
                            st.fs[path].pages[i]],
                    !.log = st.log \o <<Ev("append", path)>>]

\* _append_pdf: writer.append(path) reads the document at path and adds its
\* pages; it raises on a path that holds no readable PDF, and when the codec
\* fails (ok = FALSE)
_append_pdf(st, path, ok) ==
    IF st.exc # "" THEN st
    ELSE IF ~ok \/ st.fs[path].kind # "file" \/ ~st.fs[path].readable
    THEN [st EXCEPT !.exc = "append failed",
                    !.log = st.log \o <<Ev("append", path)>>]
    ELSE [st EXCEPT !.writer = st.writer \o st.fs[path].pages,
                    !.log = st.log \o <<Ev("append", path)>>]

RECURSIVE _build_writer(_, _, _, _)
\* reduce(_append_pdf, files, PdfWriter()); k is the index of the next file
_build_writer(st, files, k, fail_at) ==
    IF k > Len(files) \/ st.exc # "" THEN st
    ELSE _build_writer(_append_pdf(st, files[k], k # fail_at), files, k + 1, fail_at)

RECURSIVE _build_writer_backwards(_, _, _, _)
\* (mutant) the files taken from the last to the first
_build_writer_backwards(st, files, k, fail_at) ==
    IF k > Len(files) \/ st.exc # "" THEN st
    ELSE _build_writer_backwards(
            _append_pdf(st, files[Len(files) + 1 - k], k # fail_at),
            files, k + 1, fail_at)

RECURSIVE _build_writer_with_progress(_, _, _, _)
\* for f in files: _append_pdf(writer, f); progress.update(task, advance=1)
_build_writer_with_progress(st, files, k, fail_at) ==
    IF k > Len(files) \/ st.exc # "" THEN st
    ELSE _build_writer_with_progress(
            _append_pdf(st, files[k], k # fail_at), files, k + 1, fail_at)

RECURSIVE VerboseLoop(_, _, _)
\* for f in files: on_verbose(f"  adding: {f.name}")
VerboseLoop(st, n, raises) ==
    IF n = 0 THEN st ELSE VerboseLoop(on_verbose(st, raises), n - 1, raises)

\* the file a write leaves at the output path
Stored(pages) ==
    [kind |-> "file", readable |-> TRUE, pages |-> pages]

\* writer.write(str(output))
write(st, output, how) ==
    IF st.exc # "" \/ how = "fail"
    THEN IF st.exc # "" THEN st ELSE [st EXCEPT !.exc = "write failed"]
    ELSE LET doc == IF how = "ok" THEN Stored(st.writer) ELSE BadFile
             put == [st EXCEPT
                        !.fs = IF output.auto THEN st.fs
                               ELSE [st.fs EXCEPT ![output.base] = doc],
                        !.taken = IF output.auto THEN st.taken \cup {output.idx}
                                  ELSE st.taken,
                        !.written = st.written \o <<[path |-> output, doc |-> doc]>>,
                        !.log = st.log \o <<Ev("write", output.base)>>]
         IN  IF how = "ok" THEN put ELSE [put EXCEPT !.exc = "write failed"]

\* IO(effect): the action, not yet run
IO(files, output, verbose_raises, rich) ==
    [built |-> TRUE, files |-> files, output |-> output,
     verbose_raises |-> verbose_raises, rich |-> rich]

\* (mutant) the destination directory created when the action is built
merge_pdfs_eager(st, files, output, verbose_raises, rich) ==
    [io |-> IO(files, output, verbose_raises, rich),
     st |-> IF ParentExists(st.fs, output) THEN st ELSE mkdir(st, output, TRUE)]

\* merge_pdfs(files, output, on_verbose, rich_console) called in the world
\* st: it defines effect and returns IO(effect), and leaves the world as it is
merge_pdfs(st, files, output, verbose_raises, rich) ==
    [io |-> IO(files, output, verbose_raises, rich), st |-> st]

NoIO ==
    [built |-> FALSE, files |-> <<>>, output |-> NoPath,
     verbose_raises |-> FALSE, rich |-> FALSE]

\* (mutant) the exception raised in the try block is dropped
effect_swallowing(io, st, codec) ==
    LET s1 == IF ~ParentExists(st.fs, io.output)
              THEN mkdir(on_verbose(st, io.verbose_raises), io.output, codec.mkdir_ok)
              ELSE st
        use_progress == Len(io.files) > PROGRESS_THRESHOLD /\ io.rich
        s2 == IF use_progress
              THEN _build_writer_with_progress(s1, io.files, 1, codec.fail_at)
              ELSE _build_writer(VerboseLoop(s1, Len(io.files), io.verbose_raises),
                                 io.files, 1, codec.fail_at)
        s3 == write(s2, io.output, codec.write)
    IN  [st |-> s3, res |-> Ok(MergeResult(io.output, Len(io.files), Len(s3.writer)))]

\* effect(): the try block, then the result; `st` is the world it starts in
effect(io, st, codec) ==
    LET s1 == IF ~ParentExists(st.fs, io.output)
              THEN mkdir(on_verbose(st, io.verbose_raises), io.output, codec.mkdir_ok)
              ELSE st
        use_progress == Len(io.files) > PROGRESS_THRESHOLD /\ io.rich
        s2 == IF use_progress
              THEN _build_writer_with_progress(s1, io.files, 1, codec.fail_at)
              ELSE _build_writer(VerboseLoop(s1, Len(io.files), io.verbose_raises),
                                 io.files, 1, codec.fail_at)
        s3 == write(s2, io.output, codec.write)
        page_count == Len(s3.writer)
    IN  [st |-> s3,
         res |-> IF s3.exc = ""
                 THEN Ok(MergeResult(io.output, Len(io.files), page_count))
                 ELSE Err(<<"merge failed: ", s3.exc>>)]

\* ------------------------------------------------------------------------
\* cli.py
\* ------------------------------------------------------------------------

\* range(1, 1000) stops before this index
UniqueStop == 1000

\* _unique_path: the path itself when free, else the first free numbered
\* variant, else (none free) the path itself
_unique_path(taken, stem) ==
    IF 0 \notin taken THEN AutoPath(stem, 0)
    ELSE LET free == {i \in 1..(UniqueStop - 1) : i \notin taken}
         IN  IF free = {} THEN AutoPath(stem, 0)
             ELSE AutoPath(stem, CHOOSE i \in free : \A j \in free : i <= j)

\* resolve_output: Path(inputs[0]).name of a top-level directory is the raw
\* input itself
resolve_output(disk, taken, output_arg, inputs) ==
    IF output_arg # ""
    THEN ArgPath(output_arg)
    ELSE _unique_path(taken,
            IF Len(inputs) = 1 /\ disk[inputs[1]].kind = "dir"
            THEN inputs[1] ELSE "merged")

\* check_overwrite
check_overwrite(disk, taken, output, config) ==
    IF config.output # "" /\ Exists(disk, taken, output) /\ ~config.overwrite
    THEN Err(<<"output file already exists: ", output.base,
               "\n  use --overwrite to replace it">>)
    ELSE Ok(output)

format_dry_run(files) ==
    <<"target files (", Len(files), "):">> \o files

format_result(result) ==
    <<"merged ", result.file_count, " PDFs (", result.page_count, " pages) -> ",
      result.output.base>>

\* ------------------------------------------------------------------------
\* State
\* ------------------------------------------------------------------------

VARIABLES
    config,        \* who calls, and with which arguments
    fs,            \* the named paths: kind and content of each
    taken,         \* the automatic output names that exist
    pc,            \* where the run stands
    collected,     \* the Result of collect_pdfs
    steps,         \* what each call of resolve(raw) returned, in order
    output,        \* the output path the merge is given
    merge_io,      \* the IO action merge_pdfs built
    runs,          \* how many times run() was called on it
    codec,         \* how the codec and the operating system behaved in run()
    merge_result,  \* the Result of run()
    written,       \* the documents written, in order
    log,           \* the accesses to the filesystem and the codec, in order
    console,       \* the messages printed, in order
    exit_code      \* what main returned (-1: nothing yet)

vars ==
    <<config, fs, taken, pc, collected, steps, output, merge_io, runs, codec,
      merge_result, written, log, console, exit_code>>

None ==
    [tag |-> "None"]

NoCodec ==
    [mkdir_ok |-> TRUE, fail_at |-> 0, write |-> "none"]

\* the input lists of length lo..MaxInputs
InputLists(lo) ==
    UNION {[1..n -> RawInputs] : n \in lo..MaxInputs}

\* the automatic names that may exist when a run starts: none, the plain
\* name, or the plain name and every numbered variant
TakenChoices ==
    {{}, {0}, 0..(UniqueStop - 1)}

\* main(argv): argparse demands at least one input; con.verbose never
\* raises and the console is always a rich one
MainConfigs ==
    {[caller |-> "main", inputs |-> i, output |-> o, recursive |-> r,
      overwrite |-> w, dry_run |-> d, verbose_raises |-> FALSE, rich |-> TRUE] :
        i \in InputLists(1), o \in {"", "A.PDF", "new/out.pdf"},
        r \in BOOLEAN, w \in BOOLEAN, d \in BOOLEAN}

\* collect_pdfs(inputs, recursive) followed by merge_pdfs(files, output,
\* on_verbose, rich_console).run(), as a program using the package calls them
CollectMergeConfigs ==
    {[caller |-> "collect_then_merge", inputs |-> i, output |-> o,
      recursive |-> r, overwrite |-> FALSE, dry_run |-> FALSE,
      verbose_raises |-> v, rich |-> c] :
        i \in InputLists(0), o \in {"A.PDF", "new/out.pdf"},
        r \in BOOLEAN, v \in BOOLEAN, c \in BOOLEAN}

\* merge_pdfs(files, output, on_verbose, rich_console).run() on any tuple of
\* paths
MergeConfigs ==
    {[caller |-> "merge_pdfs", inputs |-> i, output |-> o,
      recursive |-> FALSE, overwrite |-> FALSE, dry_run |-> FALSE,
      verbose_raises |-> v, rich |-> c] :
        i \in InputLists(0), o \in {"A.PDF", "new/out.pdf"},
        v \in BOOLEAN, c \in BOOLEAN}

Init ==
    /\ config \in MainConfigs \cup CollectMergeConfigs \cup MergeConfigs
    /\ fs = Fs0
    /\ taken \in IF config.caller = "main" /\ config.output = ""
                 THEN TakenChoices ELSE {{}}
    /\ pc = "start"
    /\ collected = None
    /\ steps = <<>>
    /\ output = NoPath
    /\ merge_io = NoIO
    /\ runs = 0
    /\ codec = NoCodec
    /\ merge_result = None
    /\ written = <<>>
    /\ log = <<>>
    /\ console = <<>>
    /\ exit_code = -1

Say(level, msg) ==
    [level |-> level, msg |-> msg]

\* ------------------------------------------------------------------------
\* Actions
\* ------------------------------------------------------------------------

\* collected = collect_pdfs(list(config.inputs), recursive=config.recursive);
\* an exception it raises is caught nowhere and ends the run
Collect ==
    /\ pc = "start"
    /\ config.caller \in {"main", "collect_then_merge"}
    /\ \E rev \in BOOLEAN :
        \E c \in {collect_pdfs(fs, config.inputs, config.recursive, rev)} :
            /\ collected' = c.res
            /\ steps' = c.steps
            /\ log' = log \o c.log
            /\ pc' = IF c.res.tag = "Raise" THEN "raised" ELSE "collected"
    /\ UNCHANGED <<config, fs, taken, output, merge_io, runs, codec,
                   merge_result, written, console, exit_code>>

\* (mutant) the warnings of the inputs resolved before the failure are
\* shown before the error
CollectFailed_showing_warnings ==
    /\ pc = "collected"
    /\ config.caller = "main"
    /\ collected.tag = "Err"
    /\ console' = console
            \o [i \in 1..(IF steps[1].res.tag = "Ok"
                          THEN Len(steps[1].res.value.warnings) ELSE 0) |->
                    Say("warning", steps[1].res.value.warnings[i])]
            \o <<Say("error", collected.error)>>
    /\ exit_code' = 1
    /\ pc' = "done"
    /\ UNCHANGED <<config, fs, taken, collected, steps, output, merge_io, runs,
                   codec, merge_result, written, log>>

\* _run_pipeline, case Err(msg): con.error(msg); return 1
CollectFailed ==
    /\ pc = "collected"
    /\ config.caller = "main"
    /\ collected.tag = "Err"
    /\ console' = console \o <<Say("error", collected.error)>>
    /\ exit_code' = 1
    /\ pc' = "done"
    /\ UNCHANGED <<config, fs, taken, collected, steps, output, merge_io, runs,
                   codec, merge_result, written, log>>

\* _run_pipeline, case Ok(cr): the warnings, resolve_output, check_overwrite
CheckOverwrite ==
    /\ pc = "collected"
    /\ config.caller = "main"
    /\ collected.tag = "Ok"
    /\ \E warned \in {console \o [i \in 1..Len(collected.value.warnings) |->
                                    Say("warning", collected.value.warnings[i])]} :
       \E out \in {resolve_output(fs, taken, config.output, config.inputs)} :
       \E checked \in {check_overwrite(fs, taken, out, config)} :
           /\ output' = out
           /\ IF checked.tag = "Err"
              THEN /\ console' = warned \o <<Say("error", checked.error)>>
                   /\ exit_code' = 1
                   /\ pc' = "done"
              ELSE /\ console' = warned
                   /\ exit_code' = exit_code
                   /\ pc' = "checked"
    /\ UNCHANGED <<config, fs, taken, collected, steps, merge_io, runs, codec,
                   merge_result, written, log>>

\* _run_pipeline: if config.dry_run: con.info(format_dry_run(cr.files)); return 0
DryRun ==
    /\ pc = "checked"
    /\ config.dry_run
    /\ console' = console \o <<Say("info", format_dry_run(collected.value.files))>>
    /\ exit_code' = 0
    /\ pc' = "done"
    /\ UNCHANGED <<config, fs, taken, collected, steps, output, merge_io, runs,
                   codec, merge_result, written, log>>

\* the world after merge_pdfs(files, out, ...) returned the action
Built(out, b) ==
    /\ output' = out
    /\ merge_io' = b.io
    /\ fs' = b.st.fs
    /\ taken' = b.st.taken
    /\ written' = written \o b.st.written
    /\ log' = log \o b.st.log
    /\ pc' = "built"
    /\ UNCHANGED <<config, collected, steps, runs, codec, merge_result, console,
                   exit_code>>

\* (mutant) the action built whether or not --dry-run is given
BuildMerge_despite_dry_run ==
    /\ pc = "checked"
    /\ Built(output, merge_pdfs(Running(fs, taken), collected.value.files, output,
                                config.verbose_raises, config.rich))

\* _run_pipeline: merge_io = merge_pdfs(cr.files, out, on_verbose=con.verbose,
\* rich_console=con.rich)
BuildMerge ==
    /\ pc = "checked"
    /\ ~config.dry_run
    /\ Built(output, merge_pdfs(Running(fs, taken), collected.value.files, output,
                                config.verbose_raises, config.rich))

\* a program using the package: merge_pdfs(collected files, output, ...)
BuildAfterCollect ==
    /\ pc = "collected"
    /\ config.caller = "collect_then_merge"
    /\ collected.tag = "Ok"
    /\ Built(ArgPath(config.output),
             merge_pdfs(Running(fs, taken), collected.value.files,
                        ArgPath(config.output), config.verbose_raises, config.rich))

\* a program using the package: merge_pdfs(files, output, ...) on its own
BuildDirect ==
    /\ pc = "start"
    /\ config.caller = "merge_pdfs"
    /\ Built(ArgPath(config.output),
             merge_pdfs(Running(fs, taken), config.inputs,
                        ArgPath(config.output), config.verbose_raises, config.rich))

\* merge_io.run(): IO.run calls effect(); an exception effect() lets through
\* is caught nowhere and ends the run
RunMerge ==
    /\ pc = "built"
    /\ \E c \in CodecBehaviours(Len(merge_io.files),
                                ParentExists(fs, merge_io.output)) :
        \E e \in {effect(merge_io, Running(fs, taken), c)} :
            /\ codec' = c
            /\ fs' = e.st.fs
            /\ taken' = e.st.taken
            /\ written' = written \o e.st.written
            /\ log' = log \o e.st.log
            /\ merge_result' = e.res
            /\ pc' = IF e.res.tag = "Raise" THEN "raised" ELSE "ran"
    /\ runs' = runs + 1
    /\ UNCHANGED <<config, collected, steps, output, merge_io, console, exit_code>>

\* _run_pipeline: match merge_io.run(): Ok -> success, return 0; Err -> error,
\* return 1
Report ==
    /\ pc = "ran"
    /\ config.caller = "main"
    /\ IF merge_result.tag = "Ok"
       THEN /\ console' = console \o
                    <<Say("success", format_result(merge_result.value))>>
            /\ exit_code' = 0
       ELSE /\ console' = console \o <<Say("error", merge_result.error)>>
            /\ exit_code' = 1
    /\ pc' = "done"
    /\ UNCHANGED <<config, fs, taken, collected, steps, output, merge_io, runs,
                   codec, merge_result, written, log>>

Next ==
    \/ Collect
    \/ CollectFailed
    \/ CheckOverwrite
    \/ DryRun
    \/ BuildMerge
    \/ BuildAfterCollect
    \/ BuildDirect
    \/ RunMerge
    \/ Report

Spec ==
    Init /\ [][Next]_vars

\* ------------------------------------------------------------------------
\* What the claims speak of
\* ------------------------------------------------------------------------

\* collect_pdfs has returned a Result
Returned ==
    collected.tag \in {"Ok", "Err"}

\* the name ends in .pdf, whatever the case of its letters
HasPdfExtension(p) ==
    /\ Len(Name(p)) >= 4
    /\ \E e \in {<<".", x, y, z>> : x \in {"p", "P"}, y \in {"d", "D"}, z \in {"f", "F"}} :
        SubSeq(Name(p), Len(Name(p)) - 3, Len(Name(p))) = e

\* a document that opens and has at least one page, in the filesystem the
\* run started from
IsValidPdf(p) ==
    Fs0[p].kind = "file" /\ Fs0[p].readable /\ Len(Fs0[p].pages) >= 1

\* the depth of p below directory d: 1 for a child, 0 when p is not below d
DepthBelow(p, d) ==
    CASE Parent(p) = d -> 1
      [] Parent(p) # "" /\ Parent(Parent(p)) = d -> 2
      [] OTHER -> 0

\* the candidates of a scan of every path, flat and recursive
CandidateTable ==
    [d \in Paths, recursive \in BOOLEAN |->
        {p \in Paths : /\ Fs0[p].kind = "file"
                       /\ HasPdfExtension(p)
                       /\ DepthBelow(p, d) \in (IF recursive THEN {1, 2} ELSE {1})}]
    @@ <<>>

\* the candidates of a scan of directory d
CandidateSet(d, recursive) ==
    CandidateTable[d, recursive]

\* no element of seq sorts before an element to its left
InNaturalOrder(seq) ==
    \A i, j \in 1..Len(seq) :
        i < j => ~KeyLess(SortKey[seq[j]], SortKey[seq[i]])

\* seq lists the set S, each element once
ListsExactly(seq, S) ==
    /\ Len(seq) = Cardinality(S)
    /\ {seq[i] : i \in 1..Len(seq)} = S

\* what one input contributes to a successful collection
IsContribution(raw, seg) ==
    IF Fs0[raw].kind = "file"
    THEN seg = <<raw>>
    ELSE /\ ListsExactly(seg, {p \in CandidateSet(raw, config.recursive) : IsValidPdf(p)})
         /\ InNaturalOrder(seg)

\* the number of files one input contributes
ContributionLen(raw) ==
    IF Fs0[raw].kind = "file" THEN 1
    ELSE Cardinality({p \in CandidateSet(raw, config.recursive) : IsValidPdf(p)})

RECURSIVE FilesBefore(_)
\* the number of files the inputs before the k-th contribute
FilesBefore(k) ==
    IF k <= 1 THEN 0
    ELSE FilesBefore(k - 1) + ContributionLen(config.inputs[k - 1])

\* C1: whenever collect_pdfs returns Ok, its files are the contributions of
\* the inputs one after the other, in the order of the inputs: an explicit file
\* contributes itself, a directory its valid PDFs in natural-sort order;
\* nothing moves across inputs and a file reached twice is listed twice
C1_FilesAreConcatenation ==
    collected.tag = "Ok" =>
        /\ Len(collected.value.files) = FilesBefore(Len(config.inputs) + 1)
        /\ \A k \in 1..Len(config.inputs) :
            IsContribution(config.inputs[k],
                           SubSeq(collected.value.files,
                                  FilesBefore(k) + 1, FilesBefore(k + 1)))

\* an explicit file, then a directory with several valid PDFs, collected
C1_Witness ==
    /\ collected.tag = "Ok"
    /\ Len(config.inputs) = 2
    /\ Fs0[config.inputs[1]].kind = "file"
    /\ Fs0[config.inputs[2]].kind = "dir"
    /\ Len(collected.value.files) >= 4

\* an input that cannot be used: it does not exist, is neither a regular file
\* nor a directory, or is a regular file that is no valid PDF
IsFatal(raw) ==
    \/ Fs0[raw].kind \notin {"file", "dir"}
    \/ Fs0[raw].kind = "file" /\ (~HasPdfExtension(raw) \/ ~IsValidPdf(raw))

\* how the message of a fatal input starts
FatalPrefix(raw) ==
    CASE Fs0[raw].kind = "absent" -> <<"path not found: ", raw>>
      [] Fs0[raw].kind = "other" -> <<"unsupported path type: ", raw>>
      [] Fs0[raw].kind = "file" /\ ~HasPdfExtension(raw) -> <<"not a PDF file: ", raw>>
      [] OTHER -> <<"cannot read PDF: ", raw>>

FatalIndexes ==
    {k \in 1..Len(config.inputs) : IsFatal(config.inputs[k])}

LeftmostFatal ==
    CHOOSE k \in FatalIndexes : \A j \in FatalIndexes : k <= j

\* the positions in the log at which an input is looked up
StatPositions ==
    {i \in 1..Len(log) : log[i].op = "stat"}

\* the accesses stop with input k: the inputs 1..k are looked up, in order,
\* and after the last lookup only input k itself is opened
AccessesStopAt(k) ==
    /\ SelectSeq(log, LAMBDA e : e.op = "stat")
            = [i \in 1..k |-> Ev("stat", config.inputs[i])]
    /\ \A i \in 1..Len(log) :
        (\A j \in StatPositions : j < i) => log[i] = Ev("open", config.inputs[k])

\* collect_pdfs has been called and has ended, by returning or by raising
CollectEnded ==
    config.caller # "merge_pdfs" /\ pc # "start"

\* the result is Err with the message of the leftmost fatal input (so no
\* file of a later input is in it), and no input to its right is looked up,
\* scanned or opened
LeftmostFatalWins ==
    /\ collected.tag = "Err"
    /\ Len(collected.error) >= 2
    /\ SubSeq(collected.error, 1, 2) = FatalPrefix(config.inputs[LeftmostFatal])
    /\ Len(steps) = LeftmostFatal
    /\ AccessesStopAt(LeftmostFatal)

\* C2: when some input of collect_pdfs is fatal, the result is Err with the
\* message of the leftmost fatal input, no file of a later input is included,
\* and no input to its right is resolved or validated
C2_LeftmostFatalWins ==
    (CollectEnded /\ FatalIndexes # {}) => LeftmostFatalWins

\* what holds of the code: the same, when collect_pdfs returns
LeftmostFatalWinsWhenReturned ==
    (Returned /\ FatalIndexes # {}) => LeftmostFatalWins

\* no input is fatal and no input contributes a valid file (the empty list,
\* empty directories, directories of unreadable or empty documents only)
NothingToMerge ==
    /\ FatalIndexes = {}
    /\ \A k \in 1..Len(config.inputs) : ContributionLen(config.inputs[k]) = 0

\* C3: collect_pdfs never returns Ok with no files; for every input list in
\* which no input is fatal and no valid file is accumulated, the result is Err
\* with exactly the message "no PDF files to merge"
C3_NeverOkEmpty ==
    /\ collected.tag = "Ok" => Len(collected.value.files) >= 1
    /\ (CollectEnded /\ NothingToMerge) =>
            collected = Err(<<"no PDF files to merge">>)

\* what holds of the code: the same, when collect_pdfs returns
NeverOkEmptyWhenReturned ==
    /\ collected.tag = "Ok" => Len(collected.value.files) >= 1
    /\ (Returned /\ NothingToMerge) =>
            collected = Err(<<"no PDF files to merge">>)

\* the elements of a sequence
Range(seq) ==
    {seq[i] : i \in 1..Len(seq)}

\* the steps of the fold that resolved a directory
DirSteps ==
    {k \in 1..Len(steps) : Fs0[steps[k].raw].kind = "dir"}

\* the candidates of step k, and those of them that are no valid PDF
StepCandidates(k) ==
    CandidateSet(steps[k].raw, config.recursive)

StepInvalid(k) ==
    {p \in StepCandidates(k) : ~IsValidPdf(p)}

\* step k succeeded with the valid candidates in natural-sort order and one
\* warning for each of the others
ScanSucceeded(k) ==
    /\ steps[k].res.tag = "Ok"
    /\ ListsExactly(steps[k].res.value.files, StepCandidates(k) \ StepInvalid(k))
    /\ InNaturalOrder(steps[k].res.value.files)
    /\ Len(steps[k].res.value.warnings) = Cardinality(StepInvalid(k))
    /\ Len(steps[k].res.value.files) + Len(steps[k].res.value.warnings)
            = Cardinality(StepCandidates(k))

\* step k succeeded with no file and the one warning of an empty scan
ScanFoundNothing(k) ==
    steps[k].res = Ok(CollectResult(
        <<>>, << <<"no PDFs found in directory: ", steps[k].raw>> >>))

\* C4: resolving a directory that has at least one PDF candidate always
\* succeeds, with the valid candidates in natural-sort order and exactly one
\* warning for every other candidate, so that len(files) + len(warnings) is
\* the number of candidates; a directory with no candidate succeeds with no
\* files and the single warning "no PDFs found in directory: {raw}"
C4_DirectoryAlwaysResolves ==
    \A k \in DirSteps :
        IF StepCandidates(k) = {} THEN ScanFoundNothing(k) ELSE ScanSucceeded(k)

\* what holds of the code: the same, for the directories none of whose
\* candidates has a name on which natural_sort_key raises
DirectoryResolvesUnlessKeyRaises ==
    \A k \in DirSteps :
        (\A p \in StepCandidates(k) : ~HasValueError(SortKey[p])) =>
            IF StepCandidates(k) = {} THEN ScanFoundNothing(k) ELSE ScanSucceeded(k)

\* a directory with valid and invalid candidates was resolved
DirectoryResolved ==
    \E k \in DirSteps :
        /\ StepInvalid(k) # {}
        /\ Cardinality(StepCandidates(k) \ StepInvalid(k)) >= 2
        /\ ScanSucceeded(k)

\* the steps of the fold that resolved something else than a directory
ExplicitSteps ==
    {k \in 1..Len(steps) : Fs0[steps[k].raw].kind \in {"absent", "file"}}

\* the classification of an explicitly named input
ExplicitClassified(k) ==
    LET raw == steps[k].raw
        res == steps[k].res
    IN  CASE Fs0[raw].kind = "absent" ->
                res = Err(<<"path not found: ", raw>>)
          [] Fs0[raw].kind = "file" /\ ~HasPdfExtension(raw) ->
                /\ res = Err(<<"not a PDF file: ", raw>>)
                /\ \A i \in 1..Len(steps[k].log) : steps[k].log[i].op # "open"
          [] Fs0[raw].kind = "file" /\ HasPdfExtension(raw) /\ ~IsValidPdf(raw) ->
                /\ res.tag = "Err"
                /\ Len(res.error) >= 5
                /\ SubSeq(res.error, 1, 3) = <<"cannot read PDF: ", raw, " (">>
                /\ res.error[Len(res.error)] = ")"
          [] OTHER ->
                res = Ok(CollectResult(<<raw>>, <<>>))

\* the invalid candidates of scan k are left out of its files, each with a
\* warning, and the scan succeeds
InvalidOnlyWarned(k) ==
    /\ steps[k].res.tag = "Ok"
    /\ Range(steps[k].res.value.files) \cap StepInvalid(k) = {}
    /\ Len(steps[k].res.value.warnings) = Cardinality(StepInvalid(k))

\* C5: an explicitly named input that cannot be used is fatal, classified in
\* this order: a missing path gives "path not found: {raw}"; a regular file
\* whose extension is not .pdf (in any case) gives "not a PDF file: {raw}" and
\* is not opened; a .pdf file that fails validation gives "cannot read PDF:
\* {raw} ({detail})".  The same invalid file found by a directory scan is only
\* a warning
C5_ExplicitInputFatal ==
    /\ \A k \in ExplicitSteps : ExplicitClassified(k)
    /\ \A k \in DirSteps : StepInvalid(k) # {} => InvalidOnlyWarned(k)

\* what holds of the code: the same, for the scans none of whose candidates
\* has a name on which natural_sort_key raises
ExplicitInputFatalUnlessKeyRaises ==
    /\ \A k \in ExplicitSteps : ExplicitClassified(k)
    /\ \A k \in DirSteps :
        (/\ StepInvalid(k) # {}
         /\ \A p \in StepCandidates(k) : ~HasValueError(SortKey[p]))
            => InvalidOnlyWarned(k)

\* one unreadable file, first found by a scan (a warning), then named
\* explicitly (fatal)
WarnedThenFatal ==
    \E i, j \in 1..Len(steps) :
        /\ i < j
        /\ i \in DirSteps
        /\ steps[j].raw \in StepInvalid(i)
        /\ steps[i].res.tag = "Ok"
        /\ steps[j].res.tag = "Err"
        /\ collected.tag = "Err"

\* ------------------------------------------------------------------------
\* What the claims about the merge speak of
\* ------------------------------------------------------------------------

\* run() has been called and has returned
RunReturned ==
    runs = 1 /\ pc \in {"ran", "done"}

RECURSIVE SumPages(_)
\* the pages the documents of a tuple of files have together
SumPages(files) ==
    IF files = <<>> THEN 0
    ELSE Len(Fs0[Head(files)].pages) + SumPages(Tail(files))

RECURSIVE ConcatPages(_)
\* the pages of the documents of a tuple of files, one document after the
\* other
ConcatPages(files) ==
    IF files = <<>> THEN <<>>
    ELSE [i \in 1..Len(Fs0[Head(files)].pages) |-> Page(Head(files), i)]
            \o ConcatPages(Tail(files))

\* the files and the output path the caller asked to merge
RequestedFiles ==
    IF config.caller = "merge_pdfs" THEN config.inputs ELSE collected.value.files

RequestedOutput ==
    IF config.caller = "main" THEN output ELSE ArgPath(config.output)

\* C6: when merge_pdfs(files, output).run() returns Ok, the report has the
\* requested output path, file_count = len(files), and page_count equal to the
\* number of pages of the written document and to the sum of the page counts
\* of the source files
C6_ReportMatchesOutput ==
    (RunReturned /\ merge_result.tag = "Ok") =>
        /\ merge_result.value.output = RequestedOutput
        /\ merge_result.value.file_count = Len(RequestedFiles)
        /\ Len(written) = 1
        /\ written[1].path = RequestedOutput
        /\ merge_result.value.page_count = Len(written[1].doc.pages)
        /\ merge_result.value.page_count = SumPages(RequestedFiles)

\* a merge of several files, one of them of two pages, reported
C6_Witness ==
    /\ RunReturned
    /\ merge_result.tag = "Ok"
    /\ merge_result.value.file_count >= 2
    /\ merge_result.value.page_count > merge_result.value.file_count

\* how the writer was built: with the progress bar, or plainly
OnProgressPath ==
    Len(RequestedFiles) > PROGRESS_THRESHOLD /\ config.rich

\* C7: the pages of the merged output are the pages of the source documents
\* in the order of the files tuple, each document's pages in their own order,
\* on the plain path and on the progress-bar path
C7_PagesInFileOrder ==
    (RunReturned /\ merge_result.tag = "Ok") =>
        /\ Len(written) = 1
        /\ written[1].doc.pages = ConcatPages(RequestedFiles)

\* a merge on the progress-bar path with a two-page document among the files
C7_Witness ==
    /\ RunReturned
    /\ merge_result.tag = "Ok"
    /\ OnProgressPath
    /\ \E i \in 1..Len(RequestedFiles) : Len(Fs0[RequestedFiles[i]].pages) = 2
    /\ \E i, j \in 1..Len(RequestedFiles) : RequestedFiles[i] # RequestedFiles[j]

\* a merge on the plain path
PlainPathMerged ==
    /\ RunReturned
    /\ merge_result.tag = "Ok"
    /\ ~OnProgressPath
    /\ Len(RequestedFiles) >= 2
    /\ \E i, j \in 1..Len(RequestedFiles) : RequestedFiles[i] # RequestedFiles[j]

\* the events of a log that change the filesystem
Writes(l) ==
    SelectSeq(l, LAMBDA e : e.op \in {"mkdir", "write"})

\* C8: nothing is written before run() is called on the merge action:
\* collect_pdfs and the construction of the action by merge_pdfs create no
\* directory and no file; a directory is created and the output written only
\* in the step that is the call of run()
C8_NoWriteBeforeRun ==
    [][(\/ fs' # fs
        \/ taken' # taken
        \/ written' # written
        \/ Writes(log') # Writes(log))
            => (pc = "built" /\ runs' = runs + 1)]_vars

\* the action is built after a collection that read the filesystem, its
\* output directory is still missing, and nothing has been written
C8_Witness ==
    /\ pc = "built"
    /\ runs = 0
    /\ config.caller = "main"
    /\ merge_io.built
    /\ ~ParentExists(fs, merge_io.output)
    /\ \E i \in 1..Len(log) : log[i].op = "open"
    /\ fs = Fs0
    /\ written = <<>>

\* the run then created the directory and wrote the output
RunWrote ==
    /\ RunReturned
    /\ Len(Writes(log)) = 2
    /\ fs # Fs0

\* the destination directory was missing and could not be created
MkdirFailed ==
    ~ParentExists(Fs0, merge_io.output) /\ ~codec.mkdir_ok

\* the files whose append fails: the codec fails it, or the path holds no
\* readable document
BadAppends ==
    {k \in 1..Len(merge_io.files) :
        \/ codec.fail_at = k
        \/ Fs0[merge_io.files[k]].kind # "file"
        \/ ~Fs0[merge_io.files[k]].readable}

FirstBadAppend ==
    CHOOSE k \in BadAppends : \A j \in BadAppends : k <= j

WriteFailed ==
    codec.write # "ok"

\* the appends made, in order
Appends ==
    SelectSeq(log, LAMBDA e : e.op = "append")

\* the merge stopped where the first step failed: after a failed mkdir no
\* file is appended, after a failed append no later file is; in both cases
\* nothing is written
AbortedAtFailure ==
    /\ MkdirFailed => Appends = <<>>
    /\ BadAppends # {} =>
        /\ Len(Appends) <= FirstBadAppend
        /\ Appends = [i \in 1..Len(Appends) |-> Ev("append", merge_io.files[i])]
        /\ (~MkdirFailed /\ ~config.verbose_raises) => Len(Appends) = FirstBadAppend
    /\ (MkdirFailed \/ BadAppends # {}) =>
        /\ written = <<>>
        /\ \A i \in 1..Len(log) : log[i].op # "write"

\* C9: when creating the destination directory, appending a source file or
\* writing the output fails during run(), the merge stops at that step (no
\* later file is appended, no report is produced) and run() returns Err with
\* a message that starts with "merge failed: "; run() lets no exception
\* through and returns no Ok for a run in which a step failed
C9_FailureIsErr ==
    /\ runs >= 1 => pc # "raised" /\ merge_result.tag \in {"Ok", "Err"}
    /\ (RunReturned /\ (MkdirFailed \/ BadAppends # {} \/ WriteFailed)) =>
        /\ merge_result.tag = "Err"
        /\ merge_result.error[1] = "merge failed: "
        /\ AbortedAtFailure
        /\ \A i \in 1..Len(console) : console[i].level # "success"

\* the codec failed the first of several appends
C9_Witness ==
    /\ RunReturned
    /\ Len(merge_io.files) >= 2
    /\ codec.fail_at = 1
    /\ BadAppends = {1}
    /\ ~MkdirFailed
    /\ Len(Appends) = 1
    /\ merge_result.tag = "Err"

\* the directory could not be created; the write failed
MkdirFailureSeen ==
    RunReturned /\ MkdirFailed /\ merge_io.files # <<>> /\ merge_result.tag = "Err"

WriteFailureSeen ==
    /\ RunReturned
    /\ ~MkdirFailed
    /\ BadAppends = {}
    /\ codec.write = "partial"
    /\ Len(written) = 1
    /\ merge_result.tag = "Err"

\* main was given -o with a path that exists
ExistingOutputNamed ==
    /\ config.caller = "main"
    /\ config.output # ""
    /\ Fs0[config.output].kind # "absent"

\* main has ended, by returning or by an exception
MainEnded ==
    pc \in {"done", "raised"}

\* without --overwrite main returns 1 and the merge action is never run, so
\* the existing file is left as it was
RefusedWithoutOverwrite ==
    (ExistingOutputNamed /\ ~config.overwrite) =>
        /\ runs = 0
        /\ fs = Fs0
        /\ MainEnded => exit_code = 1

\* with --overwrite the merge runs and main returns 0
MergedWithOverwrite ==
    (ExistingOutputNamed /\ config.overwrite /\ MainEnded) =>
        /\ runs = 1
        /\ exit_code = 0

\* C10: when the output path is given with -o, exists, and --overwrite is not
\* given, main returns 1 and the merge action is never run, so the existing
\* file is left unchanged; with --overwrite the merge runs and main returns 0
C10_ExistingOutputProtected ==
    RefusedWithoutOverwrite /\ MergedWithOverwrite

\* what holds of the code: without --overwrite the action is never run and
\* main, when it returns, returns 1; with --overwrite, a successful
\* collection and no --dry-run, the action is run once and main returns 0
\* exactly when the run returned Ok
ExistingOutputProtectedWhenReturned ==
    /\ (ExistingOutputNamed /\ ~config.overwrite) =>
        /\ runs = 0
        /\ fs = Fs0
        /\ pc = "done" => exit_code = 1
    /\ (/\ ExistingOutputNamed
        /\ config.overwrite
        /\ pc = "done"
        /\ collected.tag = "Ok"
        /\ ~config.dry_run) =>
            /\ runs = 1
            /\ exit_code = 0 <=> merge_result.tag = "Ok"

\* ------------------------------------------------------------------------
\* What the claims about the command line and the scan speak of
\* ------------------------------------------------------------------------

\* main was given --dry-run
DryRunGiven ==
    config.caller = "main" /\ config.dry_run

\* check_overwrite has nothing to refuse: no -o, or a path that does not
\* exist, or --overwrite
OverwriteCheckPasses ==
    ~(config.output # "" /\ Fs0[config.output].kind # "absent" /\ ~config.overwrite)

\* C11: with --dry-run the merge action is never built or run, no file is
\* written and no directory created, whatever the inputs; and a run whose
\* collection and overwrite check succeed goes on to return 0
C11_DryRunWritesNothing ==
    DryRunGiven =>
        /\ runs = 0
        /\ ~merge_io.built
        /\ fs = Fs0
        /\ written = <<>>
        /\ Writes(log) = <<>>
        /\ (collected.tag = "Ok" /\ OverwriteCheckPasses) =>
            /\ pc \in {"collected", "checked", "done"}
            /\ pc = "done" => exit_code = 0

\* a dry run that returned 0 for an output whose directory is missing
C11_Witness ==
    /\ DryRunGiven
    /\ pc = "done"
    /\ exit_code = 0
    /\ config.output = "new/out.pdf"
    /\ Len(collected.value.files) >= 2
    /\ Fs0["new"].kind = "absent"
    /\ fs = Fs0

\* collect_pdfs has just ended, by returning or by raising
JustCollected ==
    config.caller # "merge_pdfs" /\ pc \in {"collected", "raised"}

\* the files a scan of d returns, in either order the operating system
\* lists the entries in (none when the scan raises)
ScanFiles(d, recursive) ==
    {Range(_resolve_dir(Fs0, d, d, recursive, rev).res.value.files) :
        rev \in {v \in BOOLEAN :
                    _resolve_dir(Fs0, d, d, recursive, v).res.tag = "Ok"}}

\* the candidates of the flat scan of d are the regular files with a .pdf
\* extension among its children, those of its recursive scan the ones
\* anywhere below it
CandidatesAreAsClaimed(d) ==
    \A rev \in BOOLEAN :
        /\ Range(Candidates(Fs0, d, FALSE, rev))
                = {p \in Paths : /\ Fs0[p].kind = "file"
                                 /\ HasPdfExtension(p)
                                 /\ DepthBelow(p, d) = 1}
        /\ Range(Candidates(Fs0, d, TRUE, rev))
                = {p \in Paths : /\ Fs0[p].kind = "file"
                                 /\ HasPdfExtension(p)
                                 /\ DepthBelow(p, d) >= 1}

\* the flat scan of d returns no file that its recursive scan does not
FlatWithinDeep(d) ==
    \A flat \in ScanFiles(d, FALSE) :
        \A deep \in ScanFiles(d, TRUE) : flat \subseteq deep

\* the directories of the filesystem
Dirs0 ==
    {d \in Paths : Fs0[d].kind = "dir"}

\* the directories whose scans have the candidates claimed, the flat one
\* within the recursive one
ScansAsClaimed ==
    {d \in Dirs0 : CandidatesAreAsClaimed(d) /\ FlatWithinDeep(d)}

\* every directory and mode with each set of files its scan may return
ScanOutcomes ==
    UNION {{<<dr[1], dr[2], files>> : files \in ScanFiles(dr[1], dr[2])} :
            dr \in Dirs0 \X BOOLEAN}

StepNames(k) ==
    {Name(p) : p \in StepCandidates(k)}

\* name a sorts before name b: both keys are computed and the key of a is
\* less than the key of b
SortsBefore(a, b) ==
    /\ ~HasValueError(natural_sort_key(a))
    /\ ~HasValueError(natural_sort_key(b))
    /\ KeyLess(natural_sort_key(a), natural_sort_key(b))

\* on the set N of names, sorting before is irreflexive and transitive
StrictOrderOn(N) ==
    /\ \A a \in N : ~SortsBefore(a, a)
    /\ \A a, b, c \in N : (SortsBefore(a, b) /\ SortsBefore(b, c)) => SortsBefore(a, c)

\* of any two distinct names of N exactly one sorts before the other
TotalOn(N) ==
    \A a, b \in N : a # b => (SortsBefore(a, b) <=> ~SortsBefore(b, a))

\* a scan of d returns the same whatever the order the operating system
\* lists the entries in
SameInEitherOrder(d, recursive) ==
    _resolve_dir(Fs0, d, d, recursive, TRUE).res
        = _resolve_dir(Fs0, d, d, recursive, FALSE).res

OrderByNamesAlone(d) ==
    SameInEitherOrder(d, config.recursive)

\* the digits of a name read as one integer; names that are a digit run
\* followed by a run without digits are compared by that integer first
LeadingInt(a) ==
    IntOf(SubSeq(a, 1, RunLen(a, TRUE)))

\* digit runs compare as integers and the other runs without regard to case
RunsComparedAsClaimed(N) ==
    \A a, b \in N :
        (/\ RunLen(a, TRUE) > 0
         /\ RunLen(b, TRUE) > 0
         /\ IntParses(SubSeq(a, 1, RunLen(a, TRUE)))
         /\ IntParses(SubSeq(b, 1, RunLen(b, TRUE)))
         /\ LeadingInt(a) < LeadingInt(b)) => SortsBefore(a, b)

\* C13: the natural ordering of a scan is a strict total order on file names:
\* irreflexive and transitive, digit runs compared as integers, and of any
\* two distinct names exactly one sorts before the other, so that the order
\* of a scan is determined by the names alone
C13_StrictTotalOrder ==
    JustCollected =>
        \A k \in DirSteps :
            /\ StrictOrderOn(StepNames(k))
            /\ RunsComparedAsClaimed(StepNames(k))
            /\ TotalOn(StepNames(k))
            /\ OrderByNamesAlone(steps[k].raw)

\* the candidates of a scan of d, each with the key of its name
KeyTableOf(d, recursive) ==
    {<<p, natural_sort_key(Name(p))>> : p \in CandidateSet(d, recursive)}

\* those of scan k
KeyTable(k) ==
    KeyTableOf(steps[k].raw, config.recursive)

\* the candidates of the table K whose key is computed
Computed(K) ==
    {x \in K : ~HasValueError(x[2])}

\* the pairs (p, q) of candidates such that the name of p sorts before the
\* name of q, and the pairs whose keys are equal
BeforeIn(K) ==
    {<<xy[1][1], xy[2][1]>> :
        xy \in {xy \in Computed(K) \X Computed(K) : KeyLess(xy[1][2], xy[2][2])}}

TiedIn(K) ==
    {<<xy[1][1], xy[2][1]>> :
        xy \in {xy \in Computed(K) \X Computed(K) : xy[1][2] = xy[2][2]}}

\* the pairs of candidates of scan k in these relations
BeforePairs(k) ==
    BeforeIn(KeyTable(k))

TiedPairs(k) ==
    TiedIn(KeyTable(k))

\* a name without any decimal digit
HasNoDigit(a) ==
    \A i \in 1..Len(a) : ~IsDecimal(a[i])

\* name a starts with a run of decimal digits
StartsWithInt(a) ==
    /\ RunLen(a, TRUE) > 0
    /\ IntParses(SubSeq(a, 1, RunLen(a, TRUE)))

\* name a, which does not end in a digit, is the beginning of the longer
\* name b (case apart)
BeginsLonger(a, b) ==
    /\ Len(a) > 0
    /\ Len(a) < Len(b)
    /\ ~IsDecimal(a[Len(a)])
    /\ Lower(a) = SubSeq(Lower(b), 1, Len(a))

\* the relation `before` on the candidates C, of which those in `computed`
\* have a key: irreflexive and transitive; names that start with digit runs
\* of different value are ordered by the value, names without digits by
\* their lower-case spelling, a name before the longer names it begins; two
\* candidates with a key are unordered exactly when they are in `tied`, and
\* a candidate without a key is ordered with none
OrderedWithTies(C, computed, before, tied) ==
    /\ \A p \in C : <<p, p>> \notin before
    /\ \A x, y \in before : x[2] = y[1] => <<x[1], y[2]>> \in before
    /\ \A x \in before : x[1] \in computed /\ x[2] \in computed
    /\ \A p, q \in computed :
        /\ (/\ StartsWithInt(Name(p))
            /\ StartsWithInt(Name(q))
            /\ LeadingInt(Name(p)) < LeadingInt(Name(q))) => <<p, q>> \in before
        /\ (HasNoDigit(Name(p)) /\ HasNoDigit(Name(q))) =>
                (<<p, q>> \in before <=> StrLess(Lower(Name(p)), Lower(Name(q))))
        /\ BeginsLonger(Name(p), Name(q)) => <<p, q>> \in before
        /\ (<<p, q>> \notin before /\ <<q, p>> \notin before) <=> <<p, q>> \in tied

\* the order on the candidates of a scan of d is one with ties, and the
\* scan returns the same in either listing order when none of them tie
ScanOrdered(d, recursive) ==
    \A K \in {KeyTableOf(d, recursive)} :
        \A before \in {BeforeIn(K)} :
            \A tied \in {TiedIn(K)} :
                /\ OrderedWithTies(CandidateSet(d, recursive),
                                   {x[1] : x \in Computed(K)}, before, tied)
                /\ (\A pq \in tied : pq[1] = pq[2]) =>
                        SameInEitherOrder(d, recursive)

\* the directories and modes of which this holds
OrderedScans ==
    {dr \in {<<d, recursive>> : d \in Dirs0, recursive \in BOOLEAN} :
        ScanOrdered(dr[1], dr[2])}

\* C13 (as amended): the natural ordering is a strict order on file names
\* that is not total: irreflexive and transitive, digit runs compared as
\* integers and other runs without regard to case, the shorter name first
\* when all compared runs are equal; two names whose keys are equal are not
\* ordered, nor is a name whose key cannot be computed; the order of a scan
\* is determined by the names alone when no two of its candidates have
\* equal keys
C13_StrictOrderWithTies ==
    JustCollected =>
        \A k \in DirSteps : <<steps[k].raw, config.recursive>> \in OrderedScans

\* a scan over names with digit runs of different length, returned in the
\* order of their values, with two names that tie
C13_Witness ==
    /\ JustCollected
    /\ \E k \in DirSteps :
        /\ steps[k].res.tag = "Ok"
        /\ Len(steps[k].res.value.files) >= 3
        /\ \E pq \in TiedPairs(k) : Name(pq[1]) # Name(pq[2])
        /\ \E i, j \in 1..Len(steps[k].res.value.files) :
            /\ i < j
            /\ Len(Name(steps[k].res.value.files[i]))
                    < Len(Name(steps[k].res.value.files[j]))
            /\ LeadingInt(Name(steps[k].res.value.files[i])) = 1
            /\ LeadingInt(Name(steps[k].res.value.files[j])) = 10

\* a scan of names without digits that differ in case
CaseSeen ==
    /\ JustCollected
    /\ \E k \in DirSteps :
        \E pq \in BeforePairs(k) :
            /\ HasNoDigit(Name(pq[1]))
            /\ CodePoint(Name(pq[2])[1]) < CodePoint(Name(pq[1])[1])

\* a scan of two distinct names with equal keys, which the two listing
\* orders return in different orders
TieSeen ==
    /\ JustCollected
    /\ ~config.recursive
    /\ \E k \in DirSteps :
        /\ steps[k].res.tag = "Ok"
        /\ ~OrderByNamesAlone(steps[k].raw)
        /\ \E a, b \in StepNames(k) :
            a # b /\ natural_sort_key(a) = natural_sort_key(b)
\* a scan with a name that is the beginning of a longer one
PrefixSeen ==
    /\ JustCollected
    /\ \E k \in DirSteps :
        \E pq \in BeforePairs(k) : BeginsLonger(Name(pq[1]), Name(pq[2]))

\* ------------------------------------------------------------------------
\* C14: inputs that are neither regular files nor directories
\* ------------------------------------------------------------------------

\* the resolved inputs that exist and are neither a regular file nor a
\* directory
OtherSteps ==
    {k \in 1..Len(steps) : Fs0[steps[k].raw].kind = "other"}

\* C14: an input that exists but is neither a regular file nor a directory
\* contributes nothing: resolving it succeeds with an empty path list and no
\* warning, and collection continues with the remaining inputs
C14_OtherInputContributesNothing ==
    CollectEnded =>
        \A k \in OtherSteps :
            /\ steps[k].res = Ok(CollectResult(<<>>, <<>>))
            /\ k < Len(config.inputs) => Len(steps) > k

\* C14 (as amended): an input that exists but is neither a regular file nor
\* a directory is fatal: resolving it fails with "unsupported path type: "
\* and the input as given, collect_pdfs returns that failure, and no input
\* to its right is looked up, scanned or opened
C14_OtherInputIsFatal ==
    CollectEnded =>
        \A k \in OtherSteps :
            /\ steps[k].res = Err(<<"unsupported path type: ", steps[k].raw>>)
            /\ collected = steps[k].res
            /\ Len(steps) = k
            /\ AccessesStopAt(k)

\* a named pipe given after a valid document, with a further input behind it
C14_Witness ==
    /\ CollectEnded
    /\ Len(config.inputs) = 2
    /\ steps # <<>>
    /\ steps[1].res.tag = "Ok"
    /\ steps[1].res.value.files # <<>>
    /\ 2 \in OtherSteps
    /\ collected.tag = "Err"

\* a named pipe given first, with a further input behind it
OtherInputFirst ==
    /\ CollectEnded
    /\ Len(config.inputs) = 2
    /\ 1 \in OtherSteps

\* ------------------------------------------------------------------------
\* C15: the presentation side channel
\* ------------------------------------------------------------------------

\* this step is run(): effect() is called in the world (fs, taken) and
\* meets the codec behaviour codec'
IsRun ==
    pc = "built" /\ pc' \in {"ran", "raised"}

\* what the same run() returns with an on_verbose callback that raises
\* (v) or not, and with a rich console (c) or none
SameRun(v, c) ==
    effect([merge_io EXCEPT !.verbose_raises = v, !.rich = c],
           Running(fs, taken), codec').res

\* run() calls on_verbose at least once: the destination directory is
\* missing, or there are files and the progress bar is not used
CallbackCalled(c) ==
    \/ ~ParentExists(fs, merge_io.output)
    \/ /\ merge_io.files # <<>>
       /\ ~(Len(merge_io.files) > PROGRESS_THRESHOLD /\ c)

CallbackRaised ==
    Err(<<"merge failed: ", "callback raised">>)

\* C15: for fixed files, output path and codec behaviour, run() returns the
\* same Ok report or the same Err for every on_verbose callback, one that
\* fails when called included, and with or without a rich console
C15_ResultIndependentOfSideChannel ==
    [][IsRun => \A v, c \in BOOLEAN : SameRun(v, c) = merge_result']_vars

\* C15 (as amended): for fixed files, output path and codec behaviour, run()
\* returns the same result with or without a rich console for every
\* on_verbose callback that does not fail; with a callback that fails, run()
\* returns Err "merge failed" and writes nothing when the callback is called
\* (the destination directory is missing, or there are files and the
\* progress bar is not used), and the same result as without it otherwise
C15_ResultIndependentOfQuietSideChannel ==
    [][IsRun =>
        /\ merge_result' = SameRun(merge_io.verbose_raises, merge_io.rich)
        /\ SameRun(FALSE, TRUE) = SameRun(FALSE, FALSE)
        /\ \A c \in BOOLEAN :
            SameRun(TRUE, c) = IF CallbackCalled(c) THEN CallbackRaised
                               ELSE SameRun(FALSE, c)
        /\ (merge_io.verbose_raises /\ CallbackCalled(merge_io.rich)) =>
                /\ written' = written
                /\ \A i \in 1..Len(log') : log'[i].op # "append"]_vars

\* a run over files that exist, into an existing directory, failed by the
\* callback alone
C15_Witness ==
    /\ pc = "ran"
    /\ merge_io.verbose_raises
    /\ merge_io.files # <<>>
    /\ ParentExists(Fs0, merge_io.output)
    /\ codec.fail_at = 0 /\ codec.write = "ok"
    /\ merge_result = CallbackRaised

\* a run with the progress bar, which never calls the callback that would
\* fail
CallbackNeverCalled ==
    /\ pc = "ran"
    /\ merge_io.verbose_raises
    /\ merge_io.rich
    /\ Len(merge_io.files) > PROGRESS_THRESHOLD
    /\ merge_result.tag = "Ok"

\* ------------------------------------------------------------------------
\* C16: how often a source document is opened
\* ------------------------------------------------------------------------

\* how often p occurs in the sequence s
Count(p, s) ==
    Cardinality({i \in 1..Len(s) : s[i] = p})

\* how often p was opened by the validation, and by the merge
OpenedToValidate(p) ==
    Cardinality({i \in 1..Len(log) : log[i] = Ev("open", p)})

OpenedToAppend(p) ==
    Cardinality({i \in 1..Len(log) : log[i] = Ev("append", p)})

\* the paths opened so far
OpenedPaths ==
    {log[i].path : i \in {j \in 1..Len(log) : log[j].op \in {"open", "append"}}}

\* collect_pdfs followed by merge_pdfs(...).run()
PipelineRun ==
    config.caller # "merge_pdfs"

\* how often the resolved inputs reach p as a candidate: as a named file
\* with the extension, or in a scan that gets to its validation
TimesReached(p) ==
    Cardinality({k \in 1..Len(steps) :
        \/ /\ steps[k].raw = p
           /\ Fs0[p].kind = "file"
           /\ HasPdfExtension(p)
        \/ /\ Fs0[steps[k].raw].kind = "dir"
           /\ steps[k].res.tag # "Raise"
           /\ p \in StepCandidates(k)})

OpenedTwice ==
    /\ PipelineRun
    /\ runs = 1
    /\ merge_result.tag = "Ok"
    /\ Len(merge_io.files) = 1
    /\ OpenedToValidate(merge_io.files[1]) + OpenedToAppend(merge_io.files[1]) = 2

\* ------------------------------------------------------------------------
\* C17: what a failed collection returns and shows
\* ------------------------------------------------------------------------

\* the warnings of the inputs that were resolved successfully
WarningsSoFar ==
    UNION {Range(steps[k].res.value.warnings) :
            k \in {j \in 1..Len(steps) : steps[j].res.tag = "Ok"}}

\* collect_pdfs ended in Err
CollectErr ==
    CollectEnded /\ collected.tag = "Err"

\* the one message of the failure: that of the input that failed, or "no
\* PDF files to merge" when every input was resolved
TheFailure ==
    IF steps # <<>> /\ steps[Len(steps)].res.tag = "Err"
    THEN steps[Len(steps)].res.error
    ELSE <<"no PDF files to merge">>

\* C17: when collect_pdfs ends in Err, the result carries only the one
\* failure message; the warnings of the inputs processed before the failure
\* are not returned, and the CLI shows no warning for the run, only the error
C17_ErrCarriesOnlyTheFailure ==
    CollectErr =>
        /\ collected = Err(TheFailure)
        /\ collected.error \notin WarningsSoFar
        /\ \A i \in 1..Len(console) : console[i].level # "warning"
        /\ (config.caller = "main" /\ pc = "done") =>
                /\ console = <<Say("error", TheFailure)>>
                /\ exit_code = 1
                /\ runs = 0

\* the CLI ended on a fatal second input after a first input that gave
\* warnings
C17_Witness ==
    /\ CollectErr
    /\ config.caller = "main"
    /\ pc = "done"
    /\ Len(steps) = 2
    /\ steps[1].res.tag = "Ok"
    /\ steps[1].res.value.warnings # <<>>
    /\ steps[2].res.tag = "Err"
    /\ console = <<Say("error", steps[2].res.error)>>

\* the CLI ended on "no PDF files to merge" after inputs that gave warnings
NothingButWarnings ==
    /\ CollectErr
    /\ config.caller = "main"
    /\ pc = "done"
    /\ WarningsSoFar # {}
    /\ collected.error = <<"no PDF files to merge">>

\* ------------------------------------------------------------------------
\* C18: the output path chosen when no -o is given
\* ------------------------------------------------------------------------

\* main without -o has chosen the output path and has not yet run the merge
AutoOutputChosen ==
    /\ config.caller = "main"
    /\ config.output = ""
    /\ pc \in {"checked", "built"}

\* C18: when no -o is given, the output path chosen by resolve_output does
\* not exist at the moment it is chosen, whatever the filesystem holds (the
\* default name and all its numbered variants included), so that a run
\* without --overwrite never replaces an existing file
C18_AutoOutputNeverExists ==
    AutoOutputChosen => ~Exists(fs, taken, output)

\* what holds of the code: the chosen path is the first of the default name
\* and its variants _001 to _999 that does not exist, when there is one
AutoOutputFirstFree ==
    (AutoOutputChosen /\ taken # 0..(UniqueStop - 1)) =>
        /\ ~Exists(fs, taken, output)
        /\ \A i \in 0..(UniqueStop - 1) : i < output.idx => i \in taken

\* the default name and all its variants exist, the default name is chosen
\* and passes check_overwrite without --overwrite
ExistingAutoOutputChosen ==
    /\ AutoOutputChosen
    /\ ~config.overwrite
    /\ taken = 0..(UniqueStop - 1)
    /\ output = AutoPath(output.base, 0)

\* the merge has then written over the file of the default name
ExistingAutoOutputReplaced ==
    /\ config.caller = "main"
    /\ config.output = ""
    /\ ~config.overwrite
    /\ pc = "done"
    /\ exit_code = 0
    /\ taken = 0..(UniqueStop - 1)
    /\ written # <<>>
    /\ written[1].path = AutoPath(output.base, 0)

====
